---- MODULE Spec2Model ----
(***************************************************************************)
(* Model of the substring structures of cmistrata/substring_structures:    *)
(*   - AhoCorasick  (src/src/substring_structures/aho_corasick.py)          *)
(*   - KnuthMorrisPratt (src/src/substring_structures/knuth_morris_pratt.py)*)
(* A Python str is a sequence of one-character strings; a node reference   *)
(* is an index into the arena `nodes` (None is 0); a dict keeps insertion  *)
(* order and is a sequence of entries.                                     *)
(***************************************************************************)
EXTENDS Integers, Sequences, FiniteSets, TLC

VARIABLES
    strings,                  \* the argument of AhoCorasick.__init__
    pc,                       \* position of the constructor
    nodes,                    \* every _ACNode created so far, by reference
    current_nodes_by_string,  \* __init__ local: dict string -> node
    current_char_index,       \* __init__ local
    for_pos,                  \* __init__ local: position of the for loop over the dict
    strings_shorter_than_current_char_index, \* __init__ local
    calls,                    \* per caller: the frame of find_substrings_in_superstring
    kmp_string,               \* KnuthMorrisPratt.string (the argument w)
    fallback_length_by_prefix_length, \* KnuthMorrisPratt._fallback_length_by_prefix_length
    current_prefix_length,    \* KnuthMorrisPratt.__init__ local
    kmp_pc,                   \* position of the KnuthMorrisPratt constructor and caller
    kmp_s,                    \* contained_by: the argument s
    kmp_s_pos,                \* contained_by: position of the loop over s
    current_matched_prefix_length, \* contained_by local
    contained                 \* contained_by: the value returned

ac_vars == <<strings, pc, nodes, current_nodes_by_string, current_char_index, for_pos,
             strings_shorter_than_current_char_index, calls>>

kmp_vars == <<kmp_string, fallback_length_by_prefix_length, current_prefix_length, kmp_pc,
              kmp_s, kmp_s_pos, current_matched_prefix_length, contained>>

vars == <<ac_vars, kmp_vars>>

----------------------------------------------------------------------------
(* Bounds of the model *)

MaxPatterns == 2
MaxPatternLen == 3
MaxTotalLen == 5
MaxTextLen == 3
MaxCallers == 2
MaxWLen == 4
MaxSLen == 5

\* the character appended to every superstring (U+1F341 in the source)
TerminatingChar == "#"

\* an alphabet without the terminating character, and one with it
Letters == {"a", "b"}
Chars == {"a", TerminatingChar}

----------------------------------------------------------------------------
(* Values *)

\* Python's None as a node reference
None == 0

\* Python's None as a node value: no str over the alphabet equals it
NoneValue == <<"None">>

\* self._root: the first node created
Root == 1

StringsUpTo(alphabet, n) == UNION {[1..k -> alphabet] : k \in 0..n}

SeqsUpTo(S, n) == UNION {[1..k -> S] : k \in 0..n}

Range(f) == {f[i] : i \in DOMAIN f}

\* p in s, for Python strings
IsSubstring(p, s) ==
    \E i \in 0..(Len(s) - Len(p)) : SubSeq(s, i + 1, i + Len(p)) = p

----------------------------------------------------------------------------
(* _ACNode *)

ACNode == [value |-> NoneValue, children |-> <<>>, suffix_link |-> None]

HasChild(ns, node, char) == char \in DOMAIN ns[node].children

\* Variant: on a missing edge the move restarts at the root instead of
\* traveling along the suffix links.
MoveForwardWithoutSuffixLinks(ns, node, char) ==
    IF node = None
    THEN [node |-> Root, traversed_substrings |-> {}]
    ELSE [node |-> IF HasChild(ns, node, char) THEN ns[node].children[char] ELSE Root,
          traversed_substrings |->
              IF ns[node].value # NoneValue THEN {ns[node].value} ELSE {}]

\* Variant: only the value of the node the move starts at is collected.
MoveForwardCollectingStartOnly(ns, node, char) ==
    LET Walk[n \in 0..Len(ns)] ==
            IF n = None THEN Root
            ELSE IF HasChild(ns, n, char) THEN ns[n].children[char]
            ELSE Walk[ns[n].suffix_link]
    IN  [node |-> Walk[node],
         traversed_substrings |->
             IF node # None /\ ns[node].value # NoneValue THEN {ns[node].value} ELSE {}]

\* Variant: the value of the node arrived at is collected as well.
MoveForwardCollectingArrival(ns, node, char) ==
    LET Here(n) == IF ns[n].value # NoneValue THEN {ns[n].value} ELSE {}
        Walk[n \in 0..Len(ns)] ==
            IF n = None THEN [node |-> Root, traversed_substrings |-> {}]
            ELSE IF HasChild(ns, n, char)
                 THEN [node |-> ns[n].children[char], traversed_substrings |-> Here(n)]
            ELSE [node |-> Walk[ns[n].suffix_link].node,
                  traversed_substrings |->
                      Here(n) \cup Walk[ns[n].suffix_link].traversed_substrings]
    IN  [node |-> Walk[node].node,
         traversed_substrings |->
             Walk[node].traversed_substrings \cup Here(Walk[node].node)]

\* Move forward from node using char, traveling along suffix links where
\* necessary; the node arrived at and the values of the nodes traveled along.
RECURSIVE MoveForwardFromNode(_, _, _)
MoveForwardFromNode(ns, node, char) ==
    IF node = None
    THEN [node |-> Root, traversed_substrings |-> {}]
    ELSE LET here == IF ns[node].value # NoneValue THEN {ns[node].value} ELSE {}
         IN  IF HasChild(ns, node, char)
             THEN [node |-> ns[node].children[char], traversed_substrings |-> here]
             ELSE LET rest == MoveForwardFromNode(ns, ns[node].suffix_link, char)
                  IN  [node |-> rest.node,
                       traversed_substrings |-> here \cup rest.traversed_substrings]

----------------------------------------------------------------------------
(* AhoCorasick.__init__ *)

\* Variant: the test never recognises a str.
IsInstanceStrNever(arg) == FALSE

\* isinstance(strings, str)
IsInstanceStr(arg) == arg.is_str

\* Iterating the argument: a collection yields its strings, a bare str yields
\* its one-character strs.
Iterate(arg) ==
    IF arg.is_str THEN [i \in DOMAIN arg.val |-> <<arg.val[i]>>] ELSE arg.val

\* x in strings: membership in a collection, substring test on a bare str
Contains(arg, x) ==
    IF arg.is_str THEN IsSubstring(x, arg.val) ELSE x \in Range(arg.val)

\* {string: self._root for string in strings}: keys in order of first insertion
RECURSIVE DictFromStrings(_)
DictFromStrings(seq) ==
    IF seq = <<>>
    THEN <<>>
    ELSE LET front == DictFromStrings(SubSeq(seq, 1, Len(seq) - 1))
             last == seq[Len(seq)]
         IN  IF \E i \in DOMAIN front : front[i].string = last
             THEN front
             ELSE Append(front, [string |-> last, node |-> Root])

\* any(current_nodes_by_string): some key is a non-empty string
AnyKey(dict) == \E i \in DOMAIN dict : dict[i].string # <<>>

\* Variant: the root is never marked.
RootNodeUnmarked(arg) == ACNode

\* Lines 30-32: the root, marked with "" when "" is one of the strings
RootNode(arg) ==
    IF Contains(arg, <<>>) THEN [ACNode EXCEPT !.value = <<>>] ELSE ACNode

\* Variant: the value is set only on a node the same iteration created.
ForBodyValueOnCreation(ns, dict, idx, shorter, k) ==
    LET string == dict[k].string
        current_node == dict[k].node
    IN  IF idx >= Len(string)
        THEN [nodes |-> ns, dict |-> dict, shorter |-> Append(shorter, string)]
        ELSE LET current_char == string[idx + 1]
                 absent == ~HasChild(ns, current_node, current_char)
                 child_node == IF absent THEN Len(ns) + 1
                               ELSE ns[current_node].children[current_char]
                 ns1 == IF absent
                        THEN Append([ns EXCEPT ![current_node].children =
                                         @ @@ (current_char :> child_node)], ACNode)
                        ELSE ns
                 ns2 == IF absent
                        THEN [ns1 EXCEPT ![child_node].suffix_link =
                                  MoveForwardFromNode(ns1, ns1[current_node].suffix_link,
                                                      current_char).node]
                        ELSE ns1
                 at_last_char_of_string == (idx = Len(string) - 1)
                 ns3 == IF at_last_char_of_string /\ absent
                        THEN [ns2 EXCEPT ![child_node].value = string]
                        ELSE ns2
             IN  [nodes |-> ns3,
                  dict |-> [dict EXCEPT ![k].node = child_node],
                  shorter |-> shorter]

\* Variant: the suffix link of a new node is the root, without the walk.
ForBodyLinkingToRoot(ns, dict, idx, shorter, k) ==
    LET string == dict[k].string
        current_node == dict[k].node
    IN  IF idx >= Len(string)
        THEN [nodes |-> ns, dict |-> dict, shorter |-> Append(shorter, string)]
        ELSE LET current_char == string[idx + 1]
                 absent == ~HasChild(ns, current_node, current_char)
                 child_node == IF absent THEN Len(ns) + 1
                               ELSE ns[current_node].children[current_char]
                 ns1 == IF absent
                        THEN Append([ns EXCEPT ![current_node].children =
                                         @ @@ (current_char :> child_node)], ACNode)
                        ELSE ns
                 ns2 == IF absent
                        THEN [ns1 EXCEPT ![child_node].suffix_link = Root]
                        ELSE ns1
                 at_last_char_of_string == (idx = Len(string) - 1)
                 ns3 == IF at_last_char_of_string
                        THEN [ns2 EXCEPT ![child_node].value = string]
                        ELSE ns2
             IN  [nodes |-> ns3,
                  dict |-> [dict EXCEPT ![k].node = child_node],
                  shorter |-> shorter]

\* Variant: the walk for the suffix link of a new node starts at its parent
\* instead of at the suffix link of its parent.
ForBodyWalkingFromParent(ns, dict, idx, shorter, k) ==
    LET string == dict[k].string
        current_node == dict[k].node
    IN  IF idx >= Len(string)
        THEN [nodes |-> ns, dict |-> dict, shorter |-> Append(shorter, string)]
        ELSE LET current_char == string[idx + 1]
                 absent == ~HasChild(ns, current_node, current_char)
                 child_node == IF absent THEN Len(ns) + 1
                               ELSE ns[current_node].children[current_char]
                 ns1 == IF absent
                        THEN Append([ns EXCEPT ![current_node].children =
                                         @ @@ (current_char :> child_node)], ACNode)
                        ELSE ns
                 ns2 == IF absent
                        THEN [ns1 EXCEPT ![child_node].suffix_link =
                                  MoveForwardFromNode(ns1, current_node,
                                                      current_char).node]
                        ELSE ns1
                 at_last_char_of_string == (idx = Len(string) - 1)
                 ns3 == IF at_last_char_of_string
                        THEN [ns2 EXCEPT ![child_node].value = string]
                        ELSE ns2
             IN  [nodes |-> ns3,
                  dict |-> [dict EXCEPT ![k].node = child_node],
                  shorter |-> shorter]

\* The path of string below node, from character index idx on, created as
\* lines 46-61 create one step of it.
RECURSIVE InsertBelow(_, _, _, _)
InsertBelow(ns, node, string, idx) ==
    IF idx >= Len(string) THEN ns
    ELSE LET current_char == string[idx + 1]
             absent == ~HasChild(ns, node, current_char)
             child_node == IF absent THEN Len(ns) + 1
                           ELSE ns[node].children[current_char]
             ns1 == IF absent
                    THEN Append([ns EXCEPT ![node].children =
                                     @ @@ (current_char :> child_node)], ACNode)
                    ELSE ns
             ns2 == IF absent
                    THEN [ns1 EXCEPT ![child_node].suffix_link =
                              MoveForwardFromNode(ns1, ns1[node].suffix_link,
                                                  current_char).node]
                    ELSE ns1
             ns3 == IF idx = Len(string) - 1
                    THEN [ns2 EXCEPT ![child_node].value = string]
                    ELSE ns2
         IN  InsertBelow(ns3, child_node, string, idx + 1)

\* Variant: depth-first insertion; the iteration that takes a string one
\* character forward also creates the rest of its path.
ForBodyDepthFirst(ns, dict, idx, shorter, k) ==
    LET string == dict[k].string
        current_node == dict[k].node
    IN  IF idx >= Len(string)
        THEN [nodes |-> ns, dict |-> dict, shorter |-> Append(shorter, string)]
        ELSE LET current_char == string[idx + 1]
                 absent == ~HasChild(ns, current_node, current_char)
                 child_node == IF absent THEN Len(ns) + 1
                               ELSE ns[current_node].children[current_char]
                 ns1 == IF absent
                        THEN Append([ns EXCEPT ![current_node].children =
                                         @ @@ (current_char :> child_node)], ACNode)
                        ELSE ns
                 ns2 == IF absent
                        THEN [ns1 EXCEPT ![child_node].suffix_link =
                                  MoveForwardFromNode(ns1, ns1[current_node].suffix_link,
                                                      current_char).node]
                        ELSE ns1
                 at_last_char_of_string == (idx = Len(string) - 1)
                 ns3 == IF at_last_char_of_string
                        THEN [ns2 EXCEPT ![child_node].value = string]
                        ELSE ns2
             IN  [nodes |-> InsertBelow(ns3, child_node, string, idx + 1),
                  dict |-> [dict EXCEPT ![k].node = child_node],
                  shorter |-> shorter]

\* Variant: the value is set at every character of the string, not only at
\* the last one.
ForBodyMarkingEveryNode(ns, dict, idx, shorter, k) ==
    LET string == dict[k].string
        current_node == dict[k].node
    IN  IF idx >= Len(string)
        THEN [nodes |-> ns, dict |-> dict, shorter |-> Append(shorter, string)]
        ELSE LET current_char == string[idx + 1]
                 absent == ~HasChild(ns, current_node, current_char)
                 child_node == IF absent THEN Len(ns) + 1
                               ELSE ns[current_node].children[current_char]
                 ns1 == IF absent
                        THEN Append([ns EXCEPT ![current_node].children =
                                         @ @@ (current_char :> child_node)], ACNode)
                        ELSE ns
                 ns2 == IF absent
                        THEN [ns1 EXCEPT ![child_node].suffix_link =
                                  MoveForwardFromNode(ns1, ns1[current_node].suffix_link,
                                                      current_char).node]
                        ELSE ns1
                 at_last_char_of_string == TRUE
                 ns3 == IF at_last_char_of_string
                        THEN [ns2 EXCEPT ![child_node].value = string]
                        ELSE ns2
             IN  [nodes |-> ns3,
                  dict |-> [dict EXCEPT ![k].node = child_node],
                  shorter |-> shorter]

\* The body of the for loop (lines 39-63) for the dict entry at position k.
ForBody(ns, dict, idx, shorter, k) ==
    LET string == dict[k].string
        current_node == dict[k].node
    IN  IF idx >= Len(string)
        THEN [nodes |-> ns, dict |-> dict, shorter |-> Append(shorter, string)]
        ELSE LET current_char == string[idx + 1]
                 absent == ~HasChild(ns, current_node, current_char)
                 child_node == IF absent THEN Len(ns) + 1
                               ELSE ns[current_node].children[current_char]
                 ns1 == IF absent
                        THEN Append([ns EXCEPT ![current_node].children =
                                         @ @@ (current_char :> child_node)], ACNode)
                        ELSE ns
                 ns2 == IF absent
                        THEN [ns1 EXCEPT ![child_node].suffix_link =
                                  MoveForwardFromNode(ns1, ns1[current_node].suffix_link,
                                                      current_char).node]
                        ELSE ns1
                 at_last_char_of_string == (idx = Len(string) - 1)
                 ns3 == IF at_last_char_of_string
                        THEN [ns2 EXCEPT ![child_node].value = string]
                        ELSE ns2
             IN  [nodes |-> ns3,
                  dict |-> [dict EXCEPT ![k].node = child_node],
                  shorter |-> shorter]

\* Lines 65-68: pop every string shorter than the current index.
PopShorter(dict, shorter) ==
    LET Keep(e) == e.string \notin Range(shorter)
    IN  SelectSeq(dict, Keep)

\* Lines 24-28: a bare string is rejected before anything is created.
Reject ==
    /\ pc = "init"
    /\ IsInstanceStr(strings)
    /\ pc' = "raised"
    /\ UNCHANGED <<strings, nodes, current_nodes_by_string, current_char_index, for_pos,
                   strings_shorter_than_current_char_index, calls>>
    /\ UNCHANGED kmp_vars

\* Lines 29-37: the root, the dict, and the first test of the while loop.
Construct ==
    /\ pc = "init"
    /\ ~IsInstanceStr(strings)
    /\ nodes' = <<RootNode(strings)>>
    /\ current_nodes_by_string' = DictFromStrings(Iterate(strings))
    /\ current_char_index' = 0
    /\ for_pos' = 1
    /\ strings_shorter_than_current_char_index' = <<>>
    /\ pc' = IF AnyKey(current_nodes_by_string') THEN "for" ELSE "built"
    /\ UNCHANGED <<strings, calls>>
    /\ UNCHANGED kmp_vars

\* One iteration of the for loop.
ForStep ==
    /\ pc = "for"
    /\ for_pos <= Len(current_nodes_by_string)
    /\ LET r == ForBody(nodes, current_nodes_by_string, current_char_index,
                        strings_shorter_than_current_char_index, for_pos)
       IN  /\ nodes' = r.nodes
           /\ current_nodes_by_string' = r.dict
           /\ strings_shorter_than_current_char_index' = r.shorter
    /\ for_pos' = for_pos + 1
    /\ UNCHANGED <<strings, pc, current_char_index, calls>>
    /\ UNCHANGED kmp_vars

\* Lines 65-69 and the next test of the while loop.
PassEnd ==
    /\ pc = "for"
    /\ for_pos > Len(current_nodes_by_string)
    /\ current_nodes_by_string' =
           PopShorter(current_nodes_by_string, strings_shorter_than_current_char_index)
    /\ current_char_index' = current_char_index + 1
    /\ strings_shorter_than_current_char_index' = <<>>
    /\ for_pos' = 1
    /\ pc' = IF AnyKey(current_nodes_by_string') THEN "for" ELSE "built"
    /\ UNCHANGED <<strings, nodes, calls>>
    /\ UNCHANGED kmp_vars

----------------------------------------------------------------------------
(* AhoCorasick.find_substrings_in_superstring *)

IdleCall == [pc |-> "idle", superstring |-> <<>>, pos |-> 0,
             current_node |-> None, found_substrings |-> {}]

\* Variant: the result is seeded with "" whatever the root holds.
CallSeedingAlways(c, text) ==
    /\ pc = "built"
    /\ calls[c].pc = "idle"
    /\ calls' = [calls EXCEPT ![c] =
           [pc |-> "loop",
            superstring |-> text \o <<TerminatingChar>>,
            pos |-> 0,
            current_node |-> Root,
            found_substrings |-> {<<>>}]]
    /\ UNCHANGED <<strings, pc, nodes, current_nodes_by_string, current_char_index, for_pos,
                   strings_shorter_than_current_char_index>>
    /\ UNCHANGED kmp_vars

\* Variant: the character appended to the text is a letter of the alphabet.
CallTerminatingWithLetter(c, text) ==
    /\ pc = "built"
    /\ calls[c].pc = "idle"
    /\ calls' = [calls EXCEPT ![c] =
           [pc |-> "loop",
            superstring |-> text \o <<"a">>,
            pos |-> 0,
            current_node |-> Root,
            found_substrings |-> IF nodes[Root].value # NoneValue THEN {<<>>} ELSE {}]]
    /\ UNCHANGED <<strings, pc, nodes, current_nodes_by_string, current_char_index, for_pos,
                   strings_shorter_than_current_char_index>>
    /\ UNCHANGED kmp_vars

\* Lines 98-104: append the terminating character, seed the result, start at the root.
Call(c, text) ==
    /\ pc = "built"
    /\ calls[c].pc = "idle"
    /\ calls' = [calls EXCEPT ![c] =
           [pc |-> "loop",
            superstring |-> text \o <<TerminatingChar>>,
            pos |-> 0,
            current_node |-> Root,
            found_substrings |-> IF nodes[Root].value # NoneValue THEN {<<>>} ELSE {}]]
    /\ UNCHANGED <<strings, pc, nodes, current_nodes_by_string, current_char_index, for_pos,
                   strings_shorter_than_current_char_index>>
    /\ UNCHANGED kmp_vars

\* Variant: the current node is kept on the instance, shared by the callers.
StepSharedCurrentNode(c) ==
    /\ calls[c].pc = "loop"
    /\ calls[c].pos < Len(calls[c].superstring)
    /\ LET r == MoveForwardFromNode(nodes, calls[c].current_node,
                                    calls[c].superstring[calls[c].pos + 1])
       IN  calls' = [k \in DOMAIN calls |->
                        IF k = c
                        THEN [calls[k] EXCEPT !.current_node = r.node,
                                              !.found_substrings =
                                                  @ \cup r.traversed_substrings,
                                              !.pos = @ + 1]
                        ELSE [calls[k] EXCEPT !.current_node = r.node]]
    /\ UNCHANGED <<strings, pc, nodes, current_nodes_by_string, current_char_index, for_pos,
                   strings_shorter_than_current_char_index>>
    /\ UNCHANGED kmp_vars

\* Variant: the move is memoized as an edge of the node it started from.
StepMemoizing(c) ==
    /\ calls[c].pc = "loop"
    /\ calls[c].pos < Len(calls[c].superstring)
    /\ LET char == calls[c].superstring[calls[c].pos + 1]
           r == MoveForwardFromNode(nodes, calls[c].current_node, char)
       IN  /\ calls' = [calls EXCEPT ![c].current_node = r.node,
                                     ![c].found_substrings = @ \cup r.traversed_substrings,
                                     ![c].pos = @ + 1]
           /\ nodes' = IF HasChild(nodes, calls[c].current_node, char)
                       THEN nodes
                       ELSE [nodes EXCEPT ![calls[c].current_node].children =
                                 @ @@ (char :> r.node)]
    /\ UNCHANGED <<strings, pc, current_nodes_by_string, current_char_index, for_pos,
                   strings_shorter_than_current_char_index>>
    /\ UNCHANGED kmp_vars

\* Lines 105-109: one iteration of the loop over the superstring.
Step(c) ==
    /\ calls[c].pc = "loop"
    /\ calls[c].pos < Len(calls[c].superstring)
    /\ LET r == MoveForwardFromNode(nodes, calls[c].current_node,
                                    calls[c].superstring[calls[c].pos + 1])
       IN  calls' = [calls EXCEPT ![c].current_node = r.node,
                                  ![c].found_substrings = @ \cup r.traversed_substrings,
                                  ![c].pos = @ + 1]
    /\ UNCHANGED <<strings, pc, nodes, current_nodes_by_string, current_char_index, for_pos,
                   strings_shorter_than_current_char_index>>
    /\ UNCHANGED kmp_vars

\* Line 111: return found_substrings.
Return(c) ==
    /\ calls[c].pc = "loop"
    /\ calls[c].pos = Len(calls[c].superstring)
    /\ calls' = [calls EXCEPT ![c].pc = "done"]
    /\ UNCHANGED <<strings, pc, nodes, current_nodes_by_string, current_char_index, for_pos,
                   strings_shorter_than_current_char_index>>
    /\ UNCHANGED kmp_vars

\* The caller is back from find_substrings_in_superstring and free to call it
\* again on the same instance.
Again(c) ==
    /\ calls[c].pc = "done"
    /\ calls' = [calls EXCEPT ![c] = IdleCall]
    /\ UNCHANGED <<strings, pc, nodes, current_nodes_by_string, current_char_index, for_pos,
                   strings_shorter_than_current_char_index>>
    /\ UNCHANGED kmp_vars

----------------------------------------------------------------------------
(* KnuthMorrisPratt *)

\* _NO_FALLBACK_FOUND
NO_FALLBACK_FOUND == -1

\* _UNSET
UNSET == -2

\* the outcome of an index out of range (Python raises IndexError)
IndexError == -3

\* seq[i] for a Python str or list: from the end when i is negative
InRange(seq, i) == -Len(seq) <= i /\ i < Len(seq)

PyIndex(seq, i) == IF i >= 0 THEN seq[i + 1] ELSE seq[Len(seq) + i + 1]

\* Variant: on a mismatch the search starts from scratch instead of falling
\* back to a shorter prefix.
MoveForwardFromPrefixWithoutFallback(str, fallback, prefix_length, char) ==
    IF prefix_length = NO_FALLBACK_FOUND
    THEN 0
    ELSE IF ~InRange(str, prefix_length)
    THEN IndexError
    ELSE IF PyIndex(str, prefix_length) = char
    THEN prefix_length + 1
    ELSE 0

\* 'Move forward' from a prefix with length prefix_length using char, falling
\* back to shorter prefixes until one is followed by char (lines 58-70).
RECURSIVE MoveForwardFromPrefix(_, _, _, _)
MoveForwardFromPrefix(str, fallback, prefix_length, char) ==
    IF prefix_length = NO_FALLBACK_FOUND
    THEN 0
    ELSE IF ~InRange(str, prefix_length)
    THEN IndexError
    ELSE IF PyIndex(str, prefix_length) = char
    THEN prefix_length + 1
    ELSE IF ~InRange(fallback, prefix_length)
    THEN IndexError
    ELSE MoveForwardFromPrefix(str, fallback, PyIndex(fallback, prefix_length), char)

KMPUnused ==
    /\ kmp_string = <<>>
    /\ fallback_length_by_prefix_length = <<>>
    /\ current_prefix_length = 0
    /\ kmp_pc = "unused"
    /\ kmp_s = <<>>
    /\ kmp_s_pos = 0
    /\ current_matched_prefix_length = 0
    /\ contained = FALSE

\* Lines 35-47: the empty string has an empty table; otherwise the table is
\* allocated unset and its first entry set.
KMPInit ==
    /\ kmp_pc = "init"
    /\ IF kmp_string = <<>>
       THEN /\ fallback_length_by_prefix_length' = <<>>
            /\ kmp_pc' = "built"
       ELSE /\ fallback_length_by_prefix_length' =
                   [i \in 1..Len(kmp_string) |-> IF i = 1 THEN NO_FALLBACK_FOUND ELSE UNSET]
            /\ kmp_pc' = "for"
    /\ current_prefix_length' = 1
    /\ UNCHANGED <<kmp_string, kmp_s, kmp_s_pos, current_matched_prefix_length, contained>>
    /\ UNCHANGED ac_vars

\* Lines 48-56: one iteration of the loop over the prefix lengths.
KMPForStep ==
    /\ kmp_pc = "for"
    /\ current_prefix_length < Len(kmp_string)
    /\ LET char == PyIndex(kmp_string, current_prefix_length - 1)
           previous_prefix_length == current_prefix_length - 1
           fallback_of_previous_prefix_length ==
               PyIndex(fallback_length_by_prefix_length, previous_prefix_length)
           moved == MoveForwardFromPrefix(kmp_string, fallback_length_by_prefix_length,
                                          fallback_of_previous_prefix_length, char)
       IN  IF moved = IndexError
           THEN /\ kmp_pc' = "raised"
                /\ UNCHANGED <<fallback_length_by_prefix_length, current_prefix_length>>
           ELSE /\ fallback_length_by_prefix_length' =
                       [fallback_length_by_prefix_length
                            EXCEPT ![current_prefix_length + 1] = moved]
                /\ current_prefix_length' = current_prefix_length + 1
                /\ kmp_pc' = "for"
    /\ UNCHANGED <<kmp_string, kmp_s, kmp_s_pos, current_matched_prefix_length, contained>>
    /\ UNCHANGED ac_vars

\* The loop over the prefix lengths is exhausted: __init__ returns.
KMPForEnd ==
    /\ kmp_pc = "for"
    /\ current_prefix_length >= Len(kmp_string)
    /\ kmp_pc' = "built"
    /\ UNCHANGED <<kmp_string, fallback_length_by_prefix_length, current_prefix_length,
                   kmp_s, kmp_s_pos, current_matched_prefix_length, contained>>
    /\ UNCHANGED ac_vars

\* Lines 72-76: contained_by(s); the empty string is contained by every s.
ContainedBy(s) ==
    /\ kmp_pc = "built"
    /\ kmp_s' = s
    /\ kmp_s_pos' = 0
    /\ current_matched_prefix_length' = 0
    /\ IF kmp_string = <<>>
       THEN /\ contained' = TRUE
            /\ kmp_pc' = "returned"
       ELSE /\ contained' = FALSE
            /\ kmp_pc' = "loop"
    /\ UNCHANGED <<kmp_string, fallback_length_by_prefix_length, current_prefix_length>>
    /\ UNCHANGED ac_vars

\* Lines 77-82: one iteration of the loop over s.
ContainedByStep ==
    /\ kmp_pc = "loop"
    /\ kmp_s_pos < Len(kmp_s)
    /\ LET moved == MoveForwardFromPrefix(kmp_string, fallback_length_by_prefix_length,
                                          current_matched_prefix_length,
                                          PyIndex(kmp_s, kmp_s_pos))
       IN  IF moved = IndexError
           THEN /\ kmp_pc' = "raised"
                /\ UNCHANGED <<current_matched_prefix_length, contained>>
           ELSE /\ current_matched_prefix_length' = moved
                /\ contained' = (moved = Len(kmp_string))
                /\ kmp_pc' = IF moved = Len(kmp_string) THEN "returned" ELSE "loop"
    /\ kmp_s_pos' = kmp_s_pos + 1
    /\ UNCHANGED <<kmp_string, fallback_length_by_prefix_length, current_prefix_length,
                   kmp_s>>
    /\ UNCHANGED ac_vars

\* Line 84: s is exhausted: return False.
ContainedByEnd ==
    /\ kmp_pc = "loop"
    /\ kmp_s_pos = Len(kmp_s)
    /\ contained' = FALSE
    /\ kmp_pc' = "returned"
    /\ UNCHANGED <<kmp_string, fallback_length_by_prefix_length, current_prefix_length,
                   kmp_s, kmp_s_pos, current_matched_prefix_length>>
    /\ UNCHANGED ac_vars

----------------------------------------------------------------------------
(* The constructor and the search as functions of their arguments *)

\* The for loop of one pass of the while loop, from dict position k on.
RECURSIVE ForLoop(_, _, _, _, _)
ForLoop(ns, dict, idx, shorter, k) ==
    IF k > Len(dict)
    THEN [nodes |-> ns, dict |-> dict, shorter |-> shorter]
    ELSE LET r == ForBody(ns, dict, idx, shorter, k)
         IN  ForLoop(r.nodes, r.dict, idx, r.shorter, k + 1)

\* The while loop of __init__ (lines 37-69).
RECURSIVE WhileLoop(_, _, _)
WhileLoop(ns, dict, idx) ==
    IF ~AnyKey(dict)
    THEN ns
    ELSE LET r == ForLoop(ns, dict, idx, <<>>, 1)
         IN  WhileLoop(r.nodes, PopShorter(r.dict, r.shorter), idx + 1)

\* The nodes AhoCorasick(arg) ends with.
Build(arg) == WhileLoop(<<RootNode(arg)>>, DictFromStrings(Iterate(arg)), 0)

\* The loop of find_substrings_in_superstring (lines 105-109) from position pos on.
RECURSIVE SearchLoop(_, _, _, _, _)
SearchLoop(ns, superstring, pos, current_node, found_substrings) ==
    IF pos >= Len(superstring)
    THEN [current_node |-> current_node, found_substrings |-> found_substrings]
    ELSE LET r == MoveForwardFromNode(ns, current_node, superstring[pos + 1])
         IN  SearchLoop(ns, superstring, pos + 1, r.node,
                        found_substrings \cup r.traversed_substrings)

\* The frame of a call that runs alone, after it consumed the first n characters.
SearchPrefix(ns, superstring, n) ==
    SearchLoop(ns, SubSeq(superstring, 1, n), 0, Root,
               IF ns[Root].value # NoneValue THEN {<<>>} ELSE {})

\* find_substrings_in_superstring(text) on the automaton ns, run alone.
FindSubstringsInSuperstring(ns, text) ==
    SearchPrefix(ns, text \o <<TerminatingChar>>, Len(text) + 1).found_substrings

----------------------------------------------------------------------------
(* The AhoCorasick of src/aho_corasick.py, the multi-state traversal.  Its
   constructor is the one above line for line, but for the move, which
   returns the node alone. *)

\* _move_forward_from_node (lines 66-74): the node arrived at.
RECURSIVE MultiStateMoveForwardFromNode(_, _, _)
MultiStateMoveForwardFromNode(ns, node, char) ==
    IF node = None THEN Root
    ELSE IF HasChild(ns, node, char) THEN ns[node].children[char]
    ELSE MultiStateMoveForwardFromNode(ns, ns[node].suffix_link, char)

\* The body of the for loop (lines 35-58) for the dict entry at position k.
MultiStateForBody(ns, dict, idx, shorter, k) ==
    LET string == dict[k].string
        current_node == dict[k].node
    IN  IF idx >= Len(string)
        THEN [nodes |-> ns, dict |-> dict, shorter |-> Append(shorter, string)]
        ELSE LET current_char == string[idx + 1]
                 absent == ~HasChild(ns, current_node, current_char)
                 child_node == IF absent THEN Len(ns) + 1
                               ELSE ns[current_node].children[current_char]
                 ns1 == IF absent
                        THEN Append([ns EXCEPT ![current_node].children =
                                         @ @@ (current_char :> child_node)], ACNode)
                        ELSE ns
                 ns2 == IF absent
                        THEN [ns1 EXCEPT ![child_node].suffix_link =
                                  MultiStateMoveForwardFromNode(
                                      ns1, ns1[current_node].suffix_link, current_char)]
                        ELSE ns1
                 at_last_char_of_string == (idx = Len(string) - 1)
                 ns3 == IF at_last_char_of_string
                        THEN [ns2 EXCEPT ![child_node].value = string]
                        ELSE ns2
             IN  [nodes |-> ns3,
                  dict |-> [dict EXCEPT ![k].node = child_node],
                  shorter |-> shorter]

\* The for loop of one pass of the while loop, from dict position k on.
RECURSIVE MultiStateForLoop(_, _, _, _, _)
MultiStateForLoop(ns, dict, idx, shorter, k) ==
    IF k > Len(dict)
    THEN [nodes |-> ns, dict |-> dict, shorter |-> shorter]
    ELSE LET r == MultiStateForBody(ns, dict, idx, shorter, k)
         IN  MultiStateForLoop(r.nodes, r.dict, idx, r.shorter, k + 1)

\* The while loop of __init__ (lines 32-64).
RECURSIVE MultiStateWhileLoop(_, _, _)
MultiStateWhileLoop(ns, dict, idx) ==
    IF ~AnyKey(dict)
    THEN ns
    ELSE LET r == MultiStateForLoop(ns, dict, idx, <<>>, 1)
         IN  MultiStateWhileLoop(r.nodes, PopShorter(r.dict, r.shorter), idx + 1)

\* The nodes AhoCorasick(arg) ends with (lines 25-64).
MultiStateBuild(arg) ==
    MultiStateWhileLoop(<<RootNode(arg)>>, DictFromStrings(Iterate(arg)), 0)

\* The loop over the superstring (lines 82-89) from position pos on:
\* current_nodes is a set of nodes that always holds the root, and only the
\* value of a node arrived at is added.
RECURSIVE MultiStateSearchLoop(_, _, _, _, _)
MultiStateSearchLoop(ns, superstring, pos, current_nodes, found_substrings) ==
    IF pos >= Len(superstring)
    THEN found_substrings
    ELSE LET char == superstring[pos + 1]
             arrived == {MultiStateMoveForwardFromNode(ns, node, char) :
                            node \in current_nodes}
             next_nodes == {Root} \cup arrived
             values == {ns[n].value : n \in {m \in arrived : ns[m].value # NoneValue}}
         IN  MultiStateSearchLoop(ns, superstring, pos + 1, next_nodes,
                                  found_substrings \cup values)

\* find_substrings_in_superstring(superstring) (lines 76-91); nothing is
\* appended to the superstring.
MultiStateFindSubstringsInSuperstring(ns, superstring) ==
    MultiStateSearchLoop(ns, superstring, 0, {Root},
                         IF ns[Root].value # NoneValue THEN {<<>>} ELSE {})

----------------------------------------------------------------------------
(* Vocabulary of the properties *)

\* the set of patterns the automaton was built from
PatternSet == Range(Iterate(strings))

\* brute-force scanning
BruteForce(P, text) == {p \in P : IsSubstring(p, text)}

Built == pc = "built"

Idle == \A c \in DOMAIN calls : calls[c].pc = "idle"

Running(c) == calls[c].pc = "loop"

Done(c) == calls[c].pc = "done"

\* the text a caller passed
TextOf(c) == SubSeq(calls[c].superstring, 1, Len(calls[c].superstring) - 1)

\* what a caller has consumed so far
Consumed(c) == SubSeq(calls[c].superstring, 1, calls[c].pos)

\* The string spelled by the edges from the root to node n.
RECURSIVE PathOf(_, _)
PathOf(ns, n) ==
    IF \E p \in DOMAIN ns : \E ch \in DOMAIN ns[p].children : ns[p].children[ch] = n
    THEN LET p == CHOOSE q \in DOMAIN ns :
                      \E ch \in DOMAIN ns[q].children : ns[q].children[ch] = n
             ch == CHOOSE x \in DOMAIN ns[p].children : ns[p].children[x] = n
         IN  Append(PathOf(ns, p), ch)
    ELSE <<>>

Prefixes(P) == UNION {{SubSeq(p, 1, k) : k \in 0..Len(p)} : p \in P}

Suffixes(s) == {SubSeq(s, k + 1, Len(s)) : k \in 0..Len(s)}

Longest(S) == CHOOSE x \in S : \A y \in S : Len(y) <= Len(x)

\* the longest suffix of s that is a prefix of some pattern of P
LongestSuffixPrefix(s, P) == Longest(Suffixes(s) \cap (Prefixes(P) \cup {<<>>}))

\* the values on the suffix-link chain that starts at node n, n included
RECURSIVE ChainValues(_, _)
ChainValues(ns, n) ==
    IF n = None
    THEN {}
    ELSE (IF ns[n].value # NoneValue THEN {ns[n].value} ELSE {})
         \cup ChainValues(ns, ns[n].suffix_link)

\* the automaton up to the references of its nodes
Canon(ns) ==
    {[path |-> PathOf(ns, n),
      value |-> ns[n].value,
      edges |-> DOMAIN ns[n].children,
      suffix_link |-> IF ns[n].suffix_link = None THEN NoneValue
                      ELSE PathOf(ns, ns[n].suffix_link)] : n \in DOMAIN ns}

----------------------------------------------------------------------------
(* Specifications *)

RECURSIVE TotalLen(_)
TotalLen(seq) == IF seq = <<>> THEN 0 ELSE Len(Head(seq)) + TotalLen(Tail(seq))

\* at most MaxPatterns strings of at most MaxPatternLen characters each and
\* MaxTotalLen characters together
Collections(alphabet) ==
    {[is_str |-> FALSE, val |-> seq] :
        seq \in {q \in SeqsUpTo(StringsUpTo(alphabet, MaxPatternLen), MaxPatterns) :
                     TotalLen(q) <= MaxTotalLen}}

BareStrings(alphabet) ==
    {[is_str |-> TRUE, val |-> s] : s \in StringsUpTo(alphabet, MaxPatternLen)}

InitWith(args, ncallers) ==
    /\ strings \in args
    /\ pc = "init"
    /\ nodes = <<>>
    /\ current_nodes_by_string = <<>>
    /\ current_char_index = 0
    /\ for_pos = 1
    /\ strings_shorter_than_current_char_index = <<>>
    /\ calls = [c \in 1..ncallers |-> IdleCall]
    /\ KMPUnused

\* the steps of the constructor on a collection
BuildNext ==
    \/ Construct
    \/ ForStep
    \/ PassEnd

\* the steps of the callers, who pass the texts of T
SearchNext(T) ==
    \/ \E c \in DOMAIN calls : \E text \in T : Call(c, text)
    \/ \E c \in DOMAIN calls : Step(c)
    \/ \E c \in DOMAIN calls : Return(c)

\* Patterns and texts over the letters, one caller.
Init == InitWith(Collections(Letters) \cup BareStrings(Letters), 1)

Next ==
    \/ Reject
    \/ BuildNext
    \/ SearchNext(StringsUpTo(Letters, MaxTextLen))

Spec == Init /\ [][Next]_vars

\* Patterns and texts that may hold the terminating character, one caller.
InitTerminating == InitWith(Collections(Chars) \cup BareStrings(Chars), 1)

NextTerminating ==
    \/ Reject
    \/ BuildNext
    \/ SearchNext(StringsUpTo(Chars, MaxTextLen))

SpecTerminating == InitTerminating /\ [][NextTerminating]_vars

\* The same, with a caller that keeps running once it has started.
SpecTerminatingFair ==
    SpecTerminating /\ WF_vars(Step(1)) /\ WF_vars(Return(1))

\* Scenario B: the patterns "a", "ab", "bc", "bca", "c", "caa", as listed and
\* in the reverse order, and callers that run at the same time on the text of
\* the scenario and on others.
ScenarioBPatterns ==
    << <<"a">>, <<"a", "b">>, <<"b", "c">>, <<"b", "c", "a">>, <<"c">>, <<"c", "a", "a">> >>

Abccab == <<"a", "b", "c", "c", "a", "b">>

ScenarioBTexts == {Abccab, <<>>, <<"c", "a", "a">>, <<"b", "c", "a", "b">>, <<"d">>}

Reverse(seq) == [i \in DOMAIN seq |-> seq[Len(seq) + 1 - i]]

InitConcurrent ==
    InitWith({[is_str |-> FALSE, val |-> ScenarioBPatterns],
              [is_str |-> FALSE, val |-> Reverse(ScenarioBPatterns)]},
             MaxCallers)

NextConcurrent ==
    \/ BuildNext
    \/ SearchNext(ScenarioBTexts)

SpecConcurrent == InitConcurrent /\ [][NextConcurrent]_vars

\* Scenario B again, every caller querying the one instance over and over.
InitSequential == InitConcurrent

NextSequential ==
    \/ BuildNext
    \/ SearchNext(ScenarioBTexts)
    \/ \E c \in DOMAIN calls : Again(c)

SpecSequential == InitSequential /\ [][NextSequential]_vars

\* KnuthMorrisPratt(w).contained_by(s) for every w and s within the bounds.
InitKMP ==
    /\ strings = [is_str |-> FALSE, val |-> <<>>]
    /\ pc = "init"
    /\ nodes = <<>>
    /\ current_nodes_by_string = <<>>
    /\ current_char_index = 0
    /\ for_pos = 1
    /\ strings_shorter_than_current_char_index = <<>>
    /\ calls = <<>>
    /\ kmp_string \in StringsUpTo(Letters, MaxWLen)
    /\ fallback_length_by_prefix_length = <<>>
    /\ current_prefix_length = 0
    /\ kmp_pc = "init"
    /\ kmp_s = <<>>
    /\ kmp_s_pos = 0
    /\ current_matched_prefix_length = 0
    /\ contained = FALSE

NextKMP ==
    \/ KMPInit
    \/ KMPForStep
    \/ KMPForEnd
    \/ \E s \in StringsUpTo(Letters, MaxSLen) : ContainedBy(s)
    \/ ContainedByStep
    \/ ContainedByEnd

SpecKMP == InitKMP /\ [][NextKMP]_vars

\* Scenario A: the patterns "he", "she", "his", "hers" in any order, the text "ahishers".
He == <<"h", "e">>
She == <<"s", "h", "e">>
His == <<"h", "i", "s">>
Hers == <<"h", "e", "r", "s">>
Ahishers == <<"a", "h", "i", "s", "h", "e", "r", "s">>

ScenarioAPatterns == {He, She, His, Hers}

InitScenarioA ==
    InitWith({[is_str |-> FALSE, val |-> seq] :
                  seq \in {q \in [1..4 -> ScenarioAPatterns] : Range(q) = ScenarioAPatterns}},
             1)

NextScenarioA ==
    \/ BuildNext
    \/ SearchNext({Ahishers})

SpecScenarioA == InitScenarioA /\ [][NextScenarioA]_vars

----------------------------------------------------------------------------
(* Properties *)

\* The constructor run step by step ends with the nodes of Build.
BuildAgrees == (Built /\ Idle) => nodes = Build(strings)

\* C1 (as claimed): every finished call returns exactly the patterns that are
\* substrings of its text, as brute-force scanning finds them.
C1_GroundTruthEquivalence ==
    \A c \in DOMAIN calls :
        Done(c) => calls[c].found_substrings = BruteForce(PatternSet, TextOf(c))

\* C3: when "" is one of the patterns the root is marked terminal by the
\* constructor and "" is in the result of every call from its first line on,
\* whatever the text; when "" is no pattern the root is unmarked and "" is
\* never in a result.
C3_EmptyPatternRule ==
    /\ pc \in {"for", "built"} =>
          ((nodes[Root].value = <<>>) <=> (<<>> \in PatternSet))
    /\ pc \in {"for", "built"} =>
          ((nodes[Root].value = NoneValue) <=> (<<>> \notin PatternSet))
    /\ \A c \in DOMAIN calls :
          (Running(c) \/ Done(c)) =>
              ((<<>> \in calls[c].found_substrings) <=> (<<>> \in PatternSet))

\* C3 witness: a call on the empty text has returned "" for patterns that hold "".
C3_Witness ==
    \E c \in DOMAIN calls :
        /\ Done(c)
        /\ TextOf(c) = <<>>
        /\ <<>> \in PatternSet
        /\ Cardinality(PatternSet) = 2
        /\ calls[c].found_substrings = {<<>>}

\* C2 (as claimed): in scenario A the call returns exactly "he", "his" and
\* "hers", and "she" is not in the result.
C2_ScenarioA_AsClaimed ==
    \A c \in DOMAIN calls :
        (Done(c) /\ PatternSet = ScenarioAPatterns /\ TextOf(c) = Ahishers) =>
            /\ calls[c].found_substrings = {He, His, Hers}
            /\ She \notin calls[c].found_substrings

\* C2 (amended): in scenario A the call returns exactly "he", "she", "his"
\* and "hers": "she" occurs in "ahishers" and is in the result.
C2_ScenarioA ==
    \A c \in DOMAIN calls :
        (Done(c) /\ PatternSet = ScenarioAPatterns /\ TextOf(c) = Ahishers) =>
            calls[c].found_substrings = {He, She, His, Hers}

\* C2 witness: the call of scenario A has returned.
C2_Witness ==
    \E c \in DOMAIN calls :
        /\ Done(c)
        /\ PatternSet = ScenarioAPatterns
        /\ TextOf(c) = Ahishers
        /\ IsSubstring(She, TextOf(c))
        /\ She \in calls[c].found_substrings

\* the texts the properties quantify over
AllTexts == StringsUpTo(Letters, MaxTextLen)

\* the sequences of at most MaxPatterns patterns with the same set of strings
\* as seq, in any order, with repetitions
SameSetAs(seq) ==
    {q \in SeqsUpTo(Range(seq), MaxPatterns) : Range(q) = Range(seq)}

\* C4: once built, the automaton has the trie shape, the terminal markings
\* and the suffix links of the automaton built from any other sequence of the
\* same set of patterns (reordered, with repetitions), and both return the
\* same set for every text.
C4_OrderDuplicateInvariance ==
    (Built /\ Idle) =>
        \A q \in SameSetAs(strings.val) :
            LET other == Build([is_str |-> FALSE, val |-> q])
            IN  /\ Canon(other) = Canon(nodes)
                /\ \A text \in AllTexts :
                       FindSubstringsInSuperstring(other, text)
                           = FindSubstringsInSuperstring(nodes, text)

\* C4 witness: an automaton built from two patterns, the longer first and the
\* shorter, a prefix of it, second.
C4_Witness ==
    /\ Built /\ Idle
    /\ ~strings.is_str
    /\ Len(strings.val) = 2
    /\ Len(strings.val[1]) = 3
    /\ strings.val[2] = SubSeq(strings.val[1], 1, 2)
    /\ Cardinality(SameSetAs(strings.val)) > 1
    /\ \E n \in DOMAIN nodes : nodes[n].value = strings.val[2]

\* the values the nodes are marked with
Values(ns) == {ns[n].value : n \in DOMAIN ns} \ {NoneValue}

MaxLenOf(P) == IF P = {} THEN 0 ELSE Len(Longest(P))

\* C5: the constructor raises exactly when its argument is a bare string, and
\* then before any node exists; on a collection (the empty one and those that
\* hold "" included) it never raises, always has a next step until it is
\* built, makes at most one pass per character of the longest string and one
\* more, and ends with the strings of the collection, whole, as the marked
\* patterns.
C5_InputValidation ==
    /\ pc = "raised" => (strings.is_str /\ nodes = <<>>)
    /\ strings.is_str => (pc \in {"init", "raised"} /\ nodes = <<>>)
    /\ ~strings.is_str =>
          /\ pc # "raised"
          /\ pc = "init" => ENABLED Construct
          /\ pc = "for" => (ENABLED (ForStep \/ PassEnd)
                            /\ current_char_index <= MaxLenOf(Range(strings.val)))
          /\ Built => Values(nodes) = Range(strings.val)

\* C5 witness: the constructor has raised on a bare string of three characters.
C5_Witness ==
    /\ pc = "raised"
    /\ strings.is_str
    /\ Len(strings.val) = 3
    /\ nodes = <<>>

\* C6: a call never holds anything but a node of the automaton and a position
\* within its superstring, a started call returns after finitely many steps,
\* and when no pattern occurs in the text it returns the empty set.
C6_MatchingIsTotal ==
    /\ [](\A c \in DOMAIN calls :
             (Running(c) \/ Done(c)) =>
                 /\ calls[c].current_node \in DOMAIN nodes
                 /\ calls[c].pos \in 0..Len(calls[c].superstring)
                 /\ calls[c].found_substrings \subseteq PatternSet)
    /\ [](\A c \in DOMAIN calls :
             (Done(c) /\ BruteForce(PatternSet, TextOf(c)) = {}) =>
                 calls[c].found_substrings = {})
    /\ (Running(1) ~> Done(1))

\* C6 witness: a call on a text of characters that occur in no pattern has
\* returned the empty set.
C6_Witness ==
    \E c \in DOMAIN calls :
        /\ Done(c)
        /\ PatternSet # {}
        /\ Len(TextOf(c)) = 3
        /\ \A i \in DOMAIN TextOf(c) : \A p \in PatternSet : ~IsSubstring(<<TextOf(c)[i]>>, p)
        /\ calls[c].found_substrings = {}

\* C7: whatever the interleaving of the steps of the callers, each call holds
\* after each of its steps the node and the set it holds when it runs alone,
\* and returns the set it returns when it runs alone on its text.
C7_ConcurrentMatching ==
    \A c \in DOMAIN calls :
        /\ (Running(c) \/ Done(c)) =>
               LET alone == SearchPrefix(nodes, calls[c].superstring, calls[c].pos)
               IN  /\ calls[c].current_node = alone.current_node
                   /\ calls[c].found_substrings = alone.found_substrings
        /\ Done(c) =>
               calls[c].found_substrings = FindSubstringsInSuperstring(nodes, TextOf(c))

\* C7 witness: one caller has returned a pattern while another, on another
\* text, is in the middle of its loop.
C7_Witness ==
    \E c, d \in DOMAIN calls :
        /\ c # d
        /\ Done(c)
        /\ calls[c].found_substrings # {}
        /\ Running(d)
        /\ calls[d].pos \in 1..(Len(calls[d].superstring) - 1)
        /\ TextOf(c) # TextOf(d)
        /\ calls[d].current_node # calls[c].current_node

\* C9: after a call has consumed any prefix of its superstring, its current
\* node is the trie node whose root path is the longest suffix of that prefix
\* that is a prefix of some pattern (the root when that suffix is empty).
C9_TraversalState ==
    \A c \in DOMAIN calls :
        (Running(c) \/ Done(c)) =>
            /\ calls[c].current_node \in DOMAIN nodes
            /\ PathOf(nodes, calls[c].current_node)
                   = LongestSuffixPrefix(Consumed(c), PatternSet)
            /\ (LongestSuffixPrefix(Consumed(c), PatternSet) = <<>>
                    <=> calls[c].current_node = Root)

\* C9 witness: a call reached, after three characters and by a suffix link, a
\* node of depth two that is not the root.
C9_Witness ==
    \E c \in DOMAIN calls :
        /\ Running(c)
        /\ calls[c].pos = 3
        /\ Len(PathOf(nodes, calls[c].current_node)) = 2
        /\ PathOf(nodes, calls[c].current_node) = SubSeq(Consumed(c), 2, 3)
        /\ Consumed(c) \notin Prefixes(PatternSet)

\* C10 (as claimed): for each character of the text, once the call has moved
\* past the state it arrived in (at the latest, then), every marked node on
\* the suffix-link chain of that arrival state, the state included, has its
\* value in the result.
C10_FullChainHarvest ==
    \A c \in DOMAIN calls :
        (Running(c) \/ Done(c)) =>
            \A i \in 1..(calls[c].pos - 1) :
                ChainValues(nodes,
                            SearchPrefix(nodes, calls[c].superstring, i).current_node)
                    \subseteq calls[c].found_substrings

\* C8: for every w, the empty string and one-character strings included, the
\* constructor and contained_by never raise, the constructor ends with a table
\* of one set entry per character of w, and contained_by(s) returns True
\* exactly when w is a substring of s.
C8_KnuthMorrisPratt ==
    /\ kmp_pc # "raised"
    /\ kmp_pc \in {"built", "loop", "returned"} =>
          /\ Len(fallback_length_by_prefix_length) = Len(kmp_string)
          /\ \A i \in DOMAIN fallback_length_by_prefix_length :
                 fallback_length_by_prefix_length[i] # UNSET
    /\ kmp_pc = "returned" => (contained <=> IsSubstring(kmp_string, kmp_s))

\* C8 witness: contained_by has returned True for a w of three characters
\* that is found only after a fallback to a shorter prefix.
C8_Witness ==
    /\ kmp_pc = "returned"
    /\ contained
    /\ Len(kmp_string) = 3
    /\ \E i \in DOMAIN fallback_length_by_prefix_length :
           fallback_length_by_prefix_length[i] > 0
    /\ Len(kmp_s) = 4
    /\ SubSeq(kmp_s, 1, 3) # kmp_string
    /\ SubSeq(kmp_s, 1, 2) = SubSeq(kmp_string, 1, 2)
    /\ SubSeq(kmp_s, 2, 4) = kmp_string

Depth(ns, n) == Len(PathOf(ns, n))

ProperSuffixes(s) == Suffixes(s) \ {s}

\* the longest proper suffix of s that is a prefix of some pattern of P
LongestProperSuffixPrefix(s, P) ==
    Longest(ProperSuffixes(s) \cap (Prefixes(P) \cup {<<>>}))

\* C11: after construction the suffix link of every node but the root is set
\* and is the node whose root path is the longest proper suffix of the node's
\* root path that is a prefix of some pattern; the children of the root link
\* to the root.
C11_SuffixLinkCorrectness ==
    (Built /\ Idle) =>
        \A n \in DOMAIN nodes \ {Root} :
            /\ nodes[n].suffix_link \in DOMAIN nodes
            /\ PathOf(nodes, nodes[n].suffix_link)
                   = LongestProperSuffixPrefix(PathOf(nodes, n), PatternSet)
            /\ Depth(nodes, n) = 1 => nodes[n].suffix_link = Root

\* C11 witness: a built automaton with a node of depth three whose suffix link
\* is a node of depth two.
C11_Witness ==
    /\ Built /\ Idle
    /\ \E n \in DOMAIN nodes :
           /\ Depth(nodes, n) = 3
           /\ nodes[n].suffix_link \in DOMAIN nodes
           /\ Depth(nodes, nodes[n].suffix_link) = 2

\* the number of link steps of the suffix chain walk from node n, which ends
\* when the link read is None; fuel cuts a walk that does not end
RECURSIVE ChainSteps(_, _, _)
ChainSteps(ns, n, fuel) ==
    IF n = None \/ fuel = 0 THEN 0
    ELSE 1 + ChainSteps(ns, ns[n].suffix_link, fuel - 1)

\* C12: in every state during and after construction the suffix link of the
\* root is None, every other node whose suffix link is set links to a node of
\* strictly smaller depth, and the suffix chain walk from a node ends after at
\* most depth(node)+1 link steps.
C12_FailureDepth ==
    (pc \in {"for", "built"}) =>
        /\ nodes[Root].suffix_link = None
        /\ \A n \in DOMAIN nodes \ {Root} :
               nodes[n].suffix_link # None =>
                   /\ nodes[n].suffix_link \in DOMAIN nodes
                   /\ Depth(nodes, nodes[n].suffix_link) < Depth(nodes, n)
        /\ \A n \in DOMAIN nodes :
               ChainSteps(nodes, n, Len(nodes) + 2) <= Depth(nodes, n) + 1

\* C12 witness: construction is under way and a node of depth two links to a
\* node of depth one, so its chain has three link steps.
C12_Witness ==
    /\ pc = "for"
    /\ \E n \in DOMAIN nodes :
           /\ Depth(nodes, n) = 2
           /\ nodes[n].suffix_link \in DOMAIN nodes \ {Root}
           /\ ChainSteps(nodes, n, Len(nodes) + 2) = 3

Paths(ns) == {PathOf(ns, n) : n \in DOMAIN ns}

\* C13: nodes are created in non-decreasing depth order, and while the pass
\* for character index i computes the suffix links of the nodes of depth i+1,
\* every pattern prefix of length at most i has its node, no node is deeper
\* than i+1, and every node but the root has its final suffix link.
C13_BreadthFirstOrder ==
    (pc = "for") =>
        /\ \A m, n \in DOMAIN nodes :
               m < n => Depth(nodes, m) <= Depth(nodes, n)
        /\ \A n \in DOMAIN nodes : Depth(nodes, n) <= current_char_index + 1
        /\ \A q \in Prefixes(PatternSet) :
               Len(q) <= current_char_index => q \in Paths(nodes)
        /\ \A n \in DOMAIN nodes \ {Root} :
               /\ nodes[n].suffix_link \in DOMAIN nodes
               /\ PathOf(nodes, nodes[n].suffix_link)
                      = LongestProperSuffixPrefix(PathOf(nodes, n), PatternSet)

\* C13 witness: the pass for character index 2 has created a node of depth
\* three whose suffix link is the node of depth two that an earlier pass made.
C13_Witness ==
    /\ pc = "for"
    /\ current_char_index = 2
    /\ \E n \in DOMAIN nodes :
           /\ Depth(nodes, n) = 3
           /\ nodes[n].suffix_link \in DOMAIN nodes
           /\ Depth(nodes, nodes[n].suffix_link) = 2
           /\ nodes[n].suffix_link < n

\* the parent edges of node n: the pairs of a node and a character whose edge
\* leads to n
ParentEdges(ns, n) ==
    {e \in (DOMAIN ns) \X (UNION {DOMAIN ns[p].children : p \in DOMAIN ns}) :
        /\ e[2] \in DOMAIN ns[e[1]].children
        /\ ns[e[1]].children[e[2]] = n}

\* the trie of the patterns, with the patterns' nodes marked
TrieInvariant ==
    /\ Paths(nodes) = Prefixes(PatternSet) \cup {<<>>}
    /\ Cardinality(Paths(nodes)) = Len(nodes)
    /\ ParentEdges(nodes, Root) = {}
    /\ \A n \in DOMAIN nodes \ {Root} :
           /\ Cardinality(ParentEdges(nodes, n)) = 1
           /\ \A e \in ParentEdges(nodes, n) : e[1] < n
    /\ \A n \in DOMAIN nodes :
           /\ (nodes[n].value # NoneValue) <=> (PathOf(nodes, n) \in PatternSet)
           /\ (nodes[n].value # NoneValue) => nodes[n].value = PathOf(nodes, n)

\* a value that is set stays as it is
ValuesKept ==
    \A n \in DOMAIN nodes :
        nodes[n].value # NoneValue =>
            /\ n \in DOMAIN nodes'
            /\ nodes'[n].value = nodes[n].value

\* C14: after construction there is exactly one node per distinct prefix of
\* the patterns, the nodes form a tree rooted at the root with one parent edge
\* per other node, a node holds a value exactly when its root path is a
\* pattern and the value is that path; and no step ever changes a value that
\* is set.
C14_TrieAndTerminalMarking ==
    /\ []((Built /\ Idle) => TrieInvariant)
    /\ [][ValuesKept]_vars

\* C14 witness: a built trie in which two patterns share a node and one
\* pattern ends at an inner node.
C14_Witness ==
    /\ Built /\ Idle
    /\ \E n \in DOMAIN nodes \ {Root} :
           /\ nodes[n].value # NoneValue
           /\ DOMAIN nodes[n].children # {}
    /\ Len(nodes) < 1 + TotalLen(Iterate(strings))

\* a step of a query leaves the nodes and the stored collection as they are
MatchingFrame == Built => (nodes' = nodes /\ strings' = strings)

\* C15: no step of _move_forward_from_node or find_substrings_in_superstring
\* changes a node's children, value or suffix link or the stored collection,
\* and every query on an instance, whatever was queried before, returns what
\* a query on a freshly built instance returns.
C15_MatchingHasNoSideEffects ==
    /\ [][MatchingFrame]_vars
    /\ [](\A c \in DOMAIN calls :
              Done(c) => /\ nodes = Build(strings)
                         /\ calls[c].found_substrings
                                = FindSubstringsInSuperstring(Build(strings), TextOf(c)))

\* C15 witness: two queries for "abccab" on the one instance have both
\* returned, with the same four patterns.
C15_Witness ==
    /\ Built
    /\ \A c \in 1..2 :
           /\ Done(c)
           /\ TextOf(c) = Abccab
           /\ Cardinality(calls[c].found_substrings) = 4
    /\ calls[1].found_substrings = calls[2].found_substrings

\* no pattern holds the terminating character
TerminatingCharFree == \A p \in PatternSet : TerminatingChar \notin Range(p)

\* the node a call that runs alone is at after the last character of the text
\* proper, before the terminating character
LastRealState(c) ==
    SearchPrefix(nodes, calls[c].superstring, Len(calls[c].superstring) - 1).current_node

\* C16: when no pattern holds the terminating character, the step that
\* processes it starts at the state reached after the last character of the
\* text, collects the value of every node of that state's suffix-link chain
\* and ends at the root; every pattern that is a suffix of the text is then in
\* the result.
C16_FinalFlush ==
    \A c \in DOMAIN calls :
        ( /\ Running(c) \/ Done(c)
          /\ calls[c].pos = Len(calls[c].superstring)
          /\ TerminatingCharFree ) =>
            /\ calls[c].current_node = Root
            /\ MoveForwardFromNode(nodes, LastRealState(c), TerminatingChar)
                   = [node |-> Root,
                      traversed_substrings |-> ChainValues(nodes, LastRealState(c))]
            /\ ChainValues(nodes, LastRealState(c)) \subseteq calls[c].found_substrings
            /\ (PatternSet \cap Suffixes(TextOf(c))) \subseteq calls[c].found_substrings

\* C16 witness: the text ends in two patterns, one a proper suffix of the
\* other and neither met before the end; the call has processed the
\* terminating character and holds both.
C16_Witness ==
    \E c \in DOMAIN calls :
        /\ Done(c)
        /\ TerminatingCharFree
        /\ \E p, q \in PatternSet \cap Suffixes(TextOf(c)) :
               /\ Len(p) < Len(q)
               /\ p # <<>>
               /\ {p, q} \subseteq calls[c].found_substrings
               /\ {p, q} \cap SearchPrefix(nodes, calls[c].superstring,
                                           Len(calls[c].superstring) - 1).found_substrings
                      = {}

\* C17: whatever the patterns and the text, the terminating character among
\* their characters or not, every string a call holds or returns is a pattern
\* and a substring of the text the caller passed.
C17_Soundness ==
    \A c \in DOMAIN calls :
        (Running(c) \/ Done(c)) =>
            calls[c].found_substrings \subseteq BruteForce(PatternSet, TextOf(c))

\* C17 witness: a pattern ends with the terminating character and the
\* superstring, not the text, ends with that pattern; the call returned a
\* pattern of the text and not that one.
C17_Witness ==
    \E c \in DOMAIN calls :
        /\ Done(c)
        /\ calls[c].found_substrings # {}
        /\ \E p \in PatternSet :
               /\ Len(p) >= 2
               /\ p[Len(p)] = TerminatingChar
               /\ p \in Suffixes(calls[c].superstring)
               /\ ~IsSubstring(p, TextOf(c))
               /\ p \notin calls[c].found_substrings

\* p occurs in q and is not q
IsProperSubstring(p, q) == p # q /\ IsSubstring(p, q)

\* no pattern is a proper substring of another pattern
SubstringFree(P) == \A p, q \in P : ~IsProperSubstring(p, q)

\* C18: when no pattern is a proper substring of another pattern and no
\* pattern holds the terminating character, a call returns every pattern
\* that is a substring of its text: the result is the brute-force set.
C18_SubstringFreeCompleteness ==
    \A c \in DOMAIN calls :
        (Done(c) /\ SubstringFree(PatternSet) /\ TerminatingCharFree) =>
            calls[c].found_substrings = BruteForce(PatternSet, TextOf(c))

\* C18 witness: two patterns of two or more characters, neither a substring
\* of the other, both returned for a text that is itself no prefix of a
\* pattern.
C18_Witness ==
    \E c \in DOMAIN calls :
        /\ Done(c)
        /\ SubstringFree(PatternSet) /\ TerminatingCharFree
        /\ Cardinality(PatternSet) = 2
        /\ \A p \in PatternSet : Len(p) >= 2
        /\ calls[c].found_substrings = PatternSet
        /\ TextOf(c) \notin Prefixes(PatternSet)

\* C19 (as claimed): for every pattern collection and text, the call of
\* substring_structures/aho_corasick.py returns the set that the multi-state
\* traversal of src/aho_corasick.py returns.
C19_ImplementationsAgree ==
    \A c \in DOMAIN calls :
        Done(c) =>
            calls[c].found_substrings
                = MultiStateFindSubstringsInSuperstring(MultiStateBuild(strings),
                                                        TextOf(c))

\* The multi-state traversal returns the brute-force set, and the two
\* constructors build the same automaton.
MultiStateAgreesWithBruteForce ==
    (Built /\ Idle) =>
        /\ MultiStateBuild(strings) = nodes
        /\ \A text \in AllTexts :
               MultiStateFindSubstringsInSuperstring(nodes, text)
                   = BruteForce(PatternSet, text)

====
